---- MODULE Spec2Model ----
(***************************************************************************)
(* Model of entt/core/memory.hpp: to_address, the three allocator          *)
(* propagation helpers, is_power_of_two and fast_mod.                      *)
(*                                                                         *)
(* The header holds three independent groups of free functions.  Each      *)
(* group gets its own specification (SpecAlloc, SpecPtr, SpecMod) over its *)
(* own variables; the variables of the other groups stay at their idle     *)
(* values.  std::size_t is modelled with SizeBits bits.                    *)
(***************************************************************************)
EXTENDS Integers, Sequences, FiniteSets, TLC

VARIABLES
    \* ---- allocator propagation (memory.hpp:36-73) ----
    pocca,          \* allocator_traits<A>::propagate_on_container_copy_assignment::value
    pocma,          \* allocator_traits<A>::propagate_on_container_move_assignment::value
    pocs,           \* allocator_traits<A>::propagate_on_container_swap::value
    assertEnabled,  \* build: ENTT_ASSERT expands to a live check (not compiled out)
    lhs,            \* the allocator object bound to parameter lhs
    rhs,            \* the allocator object bound to parameter rhs
    op,             \* the last call made: "none", "copy", "move", "swap"
    preL, preR,     \* values of lhs, rhs when the last call was entered
    prevOp,         \* the call before the last one
    pre2L, pre2R,   \* values of lhs, rhs when the call before the last was entered
    consumed,       \* the last call move-assigned from rhs (std::move(rhs) was taken)
    aborted,        \* ENTT_ASSERT failed in the last call: the program is terminated
    \* ---- to_address (memory.hpp:20-27) ----
    ptr,            \* the pointer object the caller holds
    base,           \* the raw pointer ptr was built around
    depth,          \* number of fancy levels wrapped around base
    arg,            \* argument of the last to_address call
    result,         \* value returned by the last to_address call
    steps,          \* operator->() invocations made by the last to_address call
    ptrOp,          \* "none", "resolve" (to_address(ptr)), "again" (to_address(result))
    \* ---- is_power_of_two / fast_mod (memory.hpp:80-102) ----
    Value,          \* template argument of fast_mod<Value>
    value,          \* run-time argument of fast_mod
    modState,       \* "idle", "rejected" (static_assert fired), "done"
    modResult       \* value returned by fast_mod

allocVars == <<pocca, pocma, pocs, assertEnabled, lhs, rhs, op, preL, preR,
               prevOp, pre2L, pre2R, consumed, aborted>>
ptrVars == <<ptr, base, depth, arg, result, steps, ptrOp>>
modVars == <<Value, value, modState, modResult>>
vars == <<allocVars, ptrVars, modVars>>

----------------------------------------------------------------------------
(* Bounds *)

NumArena == 2
MaxDepth == 3
NumAddr == 6
SizeBits == 6

----------------------------------------------------------------------------
(* Allocator values.  An allocator instance has a memory resource (arena)  *)
(* that its operator== compares, and further per-instance state (tag) that *)
(* operator== does not look at.                                            *)

Tags == {"a", "b"}
Alloc == [arena : 0 .. NumArena - 1, tag : Tags]

\* lhs == rhs of the allocator type
alloc_eq(a, b) == a.arena = b.arena

\* ENTT_ASSERT(condition, ...): aborts when the condition is false, unless the
\* build compiles assertions out.
ENTT_ASSERT_fails(condition) == assertEnabled /\ ~condition

IdlePtr == [kind |-> "raw", addr |-> 0]

PtrIdle ==
    /\ ptr = IdlePtr /\ base = IdlePtr /\ depth = 0
    /\ arg = IdlePtr /\ result = IdlePtr /\ steps = 0 /\ ptrOp = "none"

ModIdle ==
    /\ Value = 1 /\ value = 0 /\ modState = "idle" /\ modResult = 0

AllocIdle ==
    /\ pocca = FALSE /\ pocma = FALSE /\ pocs = FALSE /\ assertEnabled = TRUE
    /\ lhs = [arena |-> 0, tag |-> "a"] /\ rhs = [arena |-> 0, tag |-> "a"]
    /\ op = "none" /\ prevOp = "none"
    /\ preL = lhs /\ preR = rhs /\ pre2L = lhs /\ pre2R = rhs
    /\ consumed = FALSE /\ aborted = FALSE

InitAlloc ==
    /\ pocca \in BOOLEAN /\ pocma \in BOOLEAN /\ pocs \in BOOLEAN
    /\ assertEnabled \in BOOLEAN
    /\ lhs \in Alloc /\ rhs \in Alloc
    /\ op = "none" /\ prevOp = "none"
    /\ preL = lhs /\ preR = rhs /\ pre2L = lhs /\ pre2R = rhs
    /\ consumed = FALSE /\ aborted = FALSE
    /\ PtrIdle /\ ModIdle

\* bookkeeping common to the three calls
Enter(name) ==
    /\ ~aborted
    /\ op' = name /\ prevOp' = op
    /\ preL' = lhs /\ preR' = rhs
    /\ pre2L' = preL /\ pre2R' = preR
    /\ UNCHANGED <<pocca, pocma, pocs, assertEnabled>>

\* bug: the assignment is made whatever the trait says
copy_assignment_ungated ==
    /\ Enter("copy")
    /\ lhs' = rhs
    /\ rhs' = rhs
    /\ consumed' = FALSE
    /\ aborted' = FALSE
    /\ UNCHANGED <<ptrVars, modVars>>

\* propagate_on_container_copy_assignment(lhs, rhs)
propagate_on_container_copy_assignment ==
    /\ Enter("copy")
    /\ IF pocca THEN lhs' = rhs ELSE lhs' = lhs
    /\ rhs' = rhs
    /\ consumed' = FALSE
    /\ aborted' = FALSE
    /\ UNCHANGED <<ptrVars, modVars>>

\* bug: the operands are the wrong way round, rhs = std::move(lhs)
move_assignment_reversed ==
    /\ Enter("move")
    /\ IF pocma
         THEN /\ rhs' = lhs
              /\ lhs' \in Alloc
              /\ consumed' = TRUE
         ELSE /\ lhs' = lhs
              /\ rhs' = rhs
              /\ consumed' = FALSE
    /\ aborted' = FALSE
    /\ UNCHANGED <<ptrVars, modVars>>

\* bug: the move is made whatever the trait says
move_assignment_ungated ==
    /\ Enter("move")
    /\ lhs' = rhs
    /\ rhs' \in Alloc
    /\ consumed' = TRUE
    /\ aborted' = FALSE
    /\ UNCHANGED <<ptrVars, modVars>>

\* propagate_on_container_move_assignment(lhs, rhs): lhs = std::move(rhs)
\* leaves rhs valid but unspecified.
propagate_on_container_move_assignment ==
    /\ Enter("move")
    /\ IF pocma
         THEN /\ lhs' = rhs
              /\ rhs' \in Alloc
              /\ consumed' = TRUE
         ELSE /\ lhs' = lhs
              /\ rhs' = rhs
              /\ consumed' = FALSE
    /\ aborted' = FALSE
    /\ UNCHANGED <<ptrVars, modVars>>

\* bug: a swap without a temporary, lhs = rhs; rhs = lhs
swap_without_temporary ==
    /\ Enter("swap")
    /\ consumed' = FALSE
    /\ IF ENTT_ASSERT_fails(pocs \/ alloc_eq(lhs, rhs))
         THEN /\ aborted' = TRUE
              /\ UNCHANGED <<lhs, rhs>>
         ELSE /\ aborted' = FALSE
              /\ IF pocs
                   THEN lhs' = rhs /\ rhs' = rhs
                   ELSE UNCHANGED <<lhs, rhs>>
    /\ UNCHANGED <<ptrVars, modVars>>

\* bug: the precondition is not asserted
swap_without_assert ==
    /\ Enter("swap")
    /\ consumed' = FALSE
    /\ aborted' = FALSE
    /\ IF pocs
         THEN lhs' = rhs /\ rhs' = lhs
         ELSE UNCHANGED <<lhs, rhs>>
    /\ UNCHANGED <<ptrVars, modVars>>

\* bug: the exchange is made whatever the trait says
swap_ungated ==
    /\ Enter("swap")
    /\ consumed' = FALSE
    /\ IF ENTT_ASSERT_fails(pocs \/ alloc_eq(lhs, rhs))
         THEN /\ aborted' = TRUE
              /\ UNCHANGED <<lhs, rhs>>
         ELSE /\ aborted' = FALSE
              /\ lhs' = rhs /\ rhs' = lhs
    /\ UNCHANGED <<ptrVars, modVars>>

\* bug: the assertion requires equal allocators whatever the trait says
swap_assert_equal_only ==
    /\ Enter("swap")
    /\ consumed' = FALSE
    /\ IF ENTT_ASSERT_fails(alloc_eq(lhs, rhs))
         THEN /\ aborted' = TRUE
              /\ UNCHANGED <<lhs, rhs>>
         ELSE /\ aborted' = FALSE
              /\ IF pocs
                   THEN lhs' = rhs /\ rhs' = lhs
                   ELSE UNCHANGED <<lhs, rhs>>
    /\ UNCHANGED <<ptrVars, modVars>>

\* propagate_on_container_swap(lhs, rhs)
propagate_on_container_swap ==
    /\ Enter("swap")
    /\ consumed' = FALSE
    /\ IF ENTT_ASSERT_fails(pocs \/ alloc_eq(lhs, rhs))
         THEN /\ aborted' = TRUE
              /\ UNCHANGED <<lhs, rhs>>
         ELSE /\ aborted' = FALSE
              /\ IF pocs
                   THEN lhs' = rhs /\ rhs' = lhs
                   ELSE UNCHANGED <<lhs, rhs>>
    /\ UNCHANGED <<ptrVars, modVars>>

NextAlloc ==
    \/ propagate_on_container_copy_assignment
    \/ propagate_on_container_move_assignment
    \/ propagate_on_container_swap

SpecAlloc == InitAlloc /\ [][NextAlloc]_vars

----------------------------------------------------------------------------
(* to_address.  A pointer value is a raw pointer holding an address (0 is  *)
(* the null pointer) or a fancy pointer whose operator->() returns the     *)
(* next pointer of its chain.                                              *)

Raw(a) == [kind |-> "raw", addr |-> a]
Fancy(p) == [kind |-> "fancy", inner |-> p]

\* std::is_pointer_v<std::remove_const_t<std::remove_reference_t<Type>>>
is_pointer(p) == p.kind = "raw"

\* std::forward<Type>(ptr).operator->()
arrow(p) == p.inner

\* bug: no recursion, one level is taken off and returned
to_address_one_level(p) ==
    IF is_pointer(p)
      THEN p
      ELSE arrow(p)

RECURSIVE to_address(_)
to_address(p) ==
    IF is_pointer(p)
      THEN p
      ELSE to_address(arrow(p))

\* number of operator->() invocations to_address(p) makes
RECURSIVE to_address_steps(_)
to_address_steps(p) ==
    IF is_pointer(p)
      THEN 0
      ELSE 1 + to_address_steps(arrow(p))

InitPtr ==
    /\ \E a \in 0 .. NumAddr - 1 : ptr = Raw(a)
    /\ base = ptr /\ depth = 0
    /\ arg = IdlePtr /\ result = IdlePtr /\ steps = 0 /\ ptrOp = "none"
    /\ AllocIdle /\ ModIdle

\* the caller wraps its pointer into one more fancy-pointer level
Wrap ==
    /\ depth < MaxDepth
    /\ ptr' = Fancy(ptr)
    /\ depth' = depth + 1
    /\ UNCHANGED <<base, arg, result, steps, ptrOp, allocVars, modVars>>

\* the caller takes one level off again
Unwrap ==
    /\ depth > 0
    /\ ptr' = arrow(ptr)
    /\ depth' = depth - 1
    /\ UNCHANGED <<base, arg, result, steps, ptrOp, allocVars, modVars>>

\* to_address(ptr)
ToAddress ==
    /\ arg' = ptr
    /\ result' = to_address(ptr)
    /\ steps' = to_address_steps(ptr)
    /\ ptrOp' = "resolve"
    /\ UNCHANGED <<ptr, base, depth, allocVars, modVars>>

\* to_address(to_address(w)): the previous result is resolved again
ToAddressAgain ==
    /\ ptrOp = "resolve"
    /\ arg' = result
    /\ result' = to_address(result)
    /\ steps' = to_address_steps(result)
    /\ ptrOp' = "again"
    /\ UNCHANGED <<ptr, base, depth, allocVars, modVars>>

NextPtr ==
    \/ Wrap
    \/ Unwrap
    \/ ToAddress
    \/ ToAddressAgain

SpecPtr == InitPtr /\ [][NextPtr]_vars

----------------------------------------------------------------------------
(* is_power_of_two and fast_mod over std::size_t of SizeBits bits.         *)

SizeMod == 2 ^ SizeBits
SizeT == 0 .. SizeMod - 1

\* a & b on unsigned values
RECURSIVE BitAnd(_, _)
BitAnd(a, b) ==
    IF a = 0 \/ b = 0
      THEN 0
      ELSE (a % 2) * (b % 2) + 2 * BitAnd(a \div 2, b \div 2)

\* a - b on std::size_t (wraps around)
SizeSub(a, b) == (a - b) % SizeMod

\* bug: the test for zero is left out
is_power_of_two_no_zero_test(V) == BitAnd(V, SizeSub(V, 1)) = 0

\* is_power_of_two<V>::value: V && ((V & (V - 1)) == 0)
is_power_of_two(V) == (V # 0) /\ (BitAnd(V, SizeSub(V, 1)) = 0)

\* is_power_of_two_v<V>
is_power_of_two_v(V) == is_power_of_two(V)

\* bug: the mask is the divisor itself, v & V
fast_mod_unshifted_mask(V, v) == BitAnd(v, V)

\* fast_mod<V>(v): v & (V - 1u)
fast_mod(V, v) == BitAnd(v, SizeSub(V, 1))

InitMod ==
    /\ Value \in SizeT
    /\ value \in SizeT
    /\ modState = "idle" /\ modResult = 0
    /\ AllocIdle /\ PtrIdle

\* fast_mod<Value>(value): the static_assert rejects the instantiation at
\* compile time, otherwise the call returns
FastMod ==
    /\ modState = "idle"
    /\ IF is_power_of_two_v(Value)
         THEN /\ modState' = "done"
              /\ modResult' = fast_mod(Value, value)
         ELSE /\ modState' = "rejected"
              /\ modResult' = modResult
    /\ UNCHANGED <<Value, value, allocVars, ptrVars>>

\* the same instantiation is called with another argument
NextValue ==
    /\ modState = "done"
    /\ \E v \in SizeT : value' = v
    /\ modState' = "idle"
    /\ UNCHANGED <<Value, modResult, allocVars, ptrVars>>

NextMod ==
    \/ FastMod
    \/ NextValue

SpecMod == InitMod /\ [][NextMod]_vars

----------------------------------------------------------------------------
(* Properties *)

\* V = 2^k for some k >= 0 representable in std::size_t
IsPow2(V) == \E k \in 0 .. SizeBits - 1 : V = 2 ^ k

\* C1: for every power-of-two divisor Value and every value, the result of
\* fast_mod<Value>(value) is the ordinary remainder value % Value and lies in
\* [0, Value); Value = 1 gives 0; Value = 16 gives 5 for 37, 0 for 16 and 0 for 0.
C1_FastModIsRemainder ==
    (modState = "done" /\ IsPow2(Value)) =>
        /\ modResult = value % Value
        /\ modResult \in 0 .. Value - 1
        /\ (Value = 1 => modResult = 0)
        /\ (Value = 16 /\ value = 37 => modResult = 5)
        /\ (Value = 16 /\ value = 16 => modResult = 0)
        /\ (Value = 16 /\ value = 0 => modResult = 0)

C1_Witness ==
    modState = "done" /\ Value = 16 /\ value = 37 /\ modResult = 5

\* C2: after propagate_on_container_copy_assignment, lhs holds rhs's value (and
\* compares equal to rhs) when the trait is set and its own pre-call value when
\* it is not; rhs keeps its pre-call value and the call never fails.
C2_CopyPropagation ==
    op = "copy" =>
        /\ pocca => (lhs = preR /\ lhs = rhs /\ alloc_eq(lhs, rhs))
        /\ ~pocca => lhs = preL
        /\ rhs = preR
        /\ ~aborted

C2_Witness ==
    op = "copy" /\ pocca /\ ~alloc_eq(preL, preR) /\ lhs = preR /\ rhs = preR

\* C3: with propagation on move, after propagate_on_container_move_assignment
\* lhs holds the value rhs had when the call was entered.
C3_MovePropagation ==
    (op = "move" /\ pocma) => lhs = preR

C3_Witness ==
    op = "move" /\ pocma /\ ~alloc_eq(preL, preR) /\ lhs = preR /\ rhs # preR

\* C4: without propagation on move, propagate_on_container_move_assignment
\* leaves lhs and rhs at their pre-call values and does not move from rhs.
C4_MoveDisabledNoOp ==
    (op = "move" /\ ~pocma) => (lhs = preL /\ rhs = preR /\ ~consumed)

C4_Witness ==
    op = "move" /\ ~pocma /\ ~alloc_eq(preL, preR) /\ lhs = preL /\ rhs = preR

\* C5: with propagation on swap, propagate_on_container_swap exchanges the two
\* values, and two calls in a row restore both values.
C5_SwapInvolution ==
    /\ (op = "swap" /\ pocs) => (lhs = preR /\ rhs = preL)
    /\ (op = "swap" /\ prevOp = "swap" /\ pocs) => (lhs = pre2L /\ rhs = pre2R)

C5_Witness ==
    /\ op = "swap" /\ prevOp = "swap" /\ pocs
    /\ ~alloc_eq(lhs, rhs)
    /\ preL = rhs /\ preR = lhs
    /\ pre2L = lhs /\ pre2R = rhs

\* C6 as stated: without propagation on swap, every call with unequal
\* allocators ends in the assertion failure.
C6_AssertOnEveryCall ==
    (op = "swap" /\ ~pocs /\ ~alloc_eq(preL, preR)) => aborted

\* C6 amended: without propagation on swap and with unequal allocators, the call
\* ends in the assertion failure when the build keeps ENTT_ASSERT live; when
\* the build compiles it out, the call returns and modifies neither allocator.
C6_AssertWhenEnabled ==
    (op = "swap" /\ ~pocs /\ ~alloc_eq(preL, preR)) =>
        /\ assertEnabled => aborted
        /\ ~assertEnabled => (~aborted /\ lhs = preL /\ rhs = preR)

C6_Witness ==
    op = "swap" /\ ~pocs /\ ~alloc_eq(preL, preR) /\ assertEnabled /\ aborted

\* C7: without propagation on swap and with allocators that compare equal,
\* propagate_on_container_swap does not fail and leaves both values as they were.
C7_SwapDisabledEqual ==
    (op = "swap" /\ ~pocs /\ alloc_eq(preL, preR)) =>
        (~aborted /\ lhs = preL /\ rhs = preR)

C7_Witness ==
    /\ op = "swap" /\ ~pocs /\ assertEnabled
    /\ alloc_eq(preL, preR) /\ preL # preR
    /\ ~aborted /\ lhs = preL /\ rhs = preR

\* C8: to_address returns the raw pointer at the bottom of the chain after
\* exactly as many operator->() steps as there are fancy levels (none for a raw
\* pointer), resolving its result again returns the same pointer with no step,
\* and the argument is not modified.
C8_ToAddress ==
    [][ /\ ToAddress =>
             /\ result' = base
             /\ is_pointer(result')
             /\ steps' = depth
             /\ ptr' = ptr
        /\ ToAddressAgain =>
             /\ result' = result
             /\ steps' = 0
             /\ ptr' = ptr ]_vars

C8_Witness ==
    /\ ptrOp = "again" /\ depth = 2 /\ ptr = Fancy(Fancy(base))
    /\ arg = base /\ result = base /\ steps = 0 /\ base.addr # 0

\* C9: is_power_of_two_v accepts exactly the powers of two, so fast_mod is
\* rejected for 0 and for every other divisor that is no power of two, and
\* returns a result only for a power of two.
C9_DivisorCheck ==
    /\ is_power_of_two_v(Value) <=> IsPow2(Value)
    /\ modState = "done" => IsPow2(Value)
    /\ modState = "rejected" => ~IsPow2(Value)
    /\ (modState # "idle" /\ ~IsPow2(Value)) => (modState = "rejected" /\ modResult = 0)

C9_Witness ==
    modState = "rejected" /\ Value = 0 /\ value = 37

\* C10: with propagation on swap the assertion never fails, also for unequal
\* allocators, and the exchange is made; whenever the assertion fails, neither
\* allocator has been modified.
C10_AssertOnlyWhenDisabled ==
    /\ (op = "swap" /\ pocs) => (~aborted /\ lhs = preR /\ rhs = preL)
    /\ aborted => (op = "swap" /\ ~pocs /\ lhs = preL /\ rhs = preR)

C10_Witness ==
    /\ op = "swap" /\ pocs /\ assertEnabled /\ ~alloc_eq(preL, preR)
    /\ ~aborted /\ lhs = preR /\ rhs = preL

====
